---- MODULE Spec2Model ----
(***************************************************************************)
(* A model of examples/distributed/graphsage/node_classification.py: the   *)
(* DistSAGE model (construction, training forward pass, layer-wise         *)
(* distributed inference), compute_acc, evaluate and the training loop run.*)
(*                                                                         *)
(* The module holds these specifications over one set of variables:        *)
(*   AccSpec   compute_acc applied to bounded prediction/label inputs      *)
(*   FwdSpec   DistSAGE.__init__ and DistSAGE.forward as driven by run     *)
(*   InfSpec   one call of evaluate / DistSAGE.inference by all processes  *)
(*   Spec      run: epochs, training steps under join, evaluations         *)
(*   FairSpec  Spec with weak fairness of every process's steps            *)
(***************************************************************************)
EXTENDS Integers, Sequences, FiniteSets, TLC

VARIABLES
    \* ---- compute_acc -------------------------------------------------
    pred,        \* prediction matrix: a sequence of rows of class scores
    labels,      \* label vector (fixed point, tenths), as stored in ndata
    acc,         \* the value compute_acc returned
    apc,         \* "idle" | "call" | "ret"
    \* ---- DistSAGE.__init__ / forward --------------------------------
    args,        \* the parsed command line that run reads
    layers,      \* self.layers: a sequence of [in |-> , out |-> ] SAGEConv
    blocks,      \* the minibatch's blocks: a sequence of [src |-> , dst |-> ]
    h,           \* forward's h: [rows, cols, act]
    fi,          \* forward's loop index i (0-based)
    nact,        \* number of activation+dropout applications in forward
    fpc,         \* "idle" | "new" | "sample" | "loop" | "ret" | "error"
    \* ---- run (one entry per process) ---------------------------------
    pc,          \* where each process is in run / evaluate / inference
    nb,          \* number of minibatches the training dataloader yields
    epoch,       \* run's epoch counter
    step,        \* training steps completed in the current epoch
    epoch_time,  \* run's epoch_time list
    test_acc,    \* run's test_acc (the epoch whose evaluation produced it)
    ret,         \* what run returned
    log,         \* the lines the process printed (epoch and evaluation lines)
    training,    \* nn.Module.training of the process's model
    grad,        \* whether gradient tracking is enabled
    \* ---- DistSAGE.inference ------------------------------------------
    split,       \* node_split: the process each graph node is assigned to
    xref,        \* the tensor inference's x is bound to
    yref,        \* the tensor inference's y is bound to
    li,          \* inference's layer index i (0-based)
    bi,          \* batches of the current layer already processed
    arrived,     \* number of g.barrier() calls the process has entered
    store        \* the distributed tensors "h" and "h_last", row per node

accVars == <<pred, labels, acc, apc>>
fwdVars == <<blocks, h, fi, nact, fpc>>
cfgVars == <<args, layers, nb, split>>
runVars == <<pc, epoch, step, epoch_time, test_acc, ret, log, training, grad>>
infVars == <<xref, yref, li, bi, arrived, store>>
vars == <<accVars, fwdVars, cfgVars, runVars, infVars>>

(***************************************************************************)
(* Bounds of the model.                                                    *)
(***************************************************************************)
MaxRows == 2        \* rows of a prediction matrix given to compute_acc
MaxScore == 1       \* class scores range over 0..MaxScore
NClasses == 2       \* number of classes (columns of a prediction)
MaxLayers == 3      \* --num_layers ranges over 1..MaxLayers
MaxFanOut == 3      \* --fan_out has 1..MaxFanOut entries
MaxBlockNodes == 2  \* nodes on one side of a sampled block
InFeats == 3        \* width of g.ndata["features"]
NumHidden == 16     \* --num_hidden (its default)
NumNodes == 3       \* nodes of the graph
MaxEpochs == 2      \* --num_epochs ranges over 1..MaxEpochs
MaxEvalEvery == 2   \* --eval_every ranges over 1..MaxEvalEvery
MaxBatches == 1     \* a process's training dataloader yields 0..MaxBatches

\* The trainer processes of the job.
Procs == {1, 2}
Nodes == 1..NumNodes

\* Wall-clock durations of an epoch, as toc - tic may come out.
Durations == {1, 2}

\* A float held as numerator and denominator; 0.0 / 0 is nan.
NaN == [num |-> 0, den |-> 0]

Min(a, b) == IF a <= b THEN a ELSE b
Max(a, b) == IF a >= b THEN a ELSE b

RECURSIVE SumSeq(_)
SumSeq(s) == IF s = <<>> THEN 0 ELSE s[1] + SumSeq(Tail(s))

RECURSIVE SumSet(_, _)
SumSet(S, f) ==
    IF S = {} THEN 0
    ELSE LET v == CHOOSE u \in S : TRUE IN f[v] + SumSet(S \ {v}, f)

SeqsUpTo(S, n) == UNION {[1..k -> S] : k \in 0..n}

\* Float division, sum / count (0.0 / 0 comes out as NaN).
TrueDiv(num, den) == [num |-> num, den |-> den]

(***************************************************************************)
(* compute_acc                                                             *)
(***************************************************************************)
\* Label values as stored (fixed point, tenths): -0.5, 0.0, 1.5.
LabelValues == {-5, 0, 15}

LongFloor(l) == IF l >= 0 THEN l \div 10 ELSE -(((-l) + 9) \div 10)

\* Tensor.long(): conversion to int64 truncates toward zero.
Long(l) == IF l >= 0 THEN l \div 10 ELSE -((-l) \div 10)

\* th.argmax(row): 0-based index of the first maximal value.
ArgMax(row) ==
    (CHOOSE j \in 1..Len(row) :
        /\ \A k \in 1..Len(row) : row[k] <= row[j]
        /\ \A k \in 1..(j - 1) : row[k] < row[j]) - 1

\* (th.argmax(pred, dim=1) == labels).float().sum()
Matches(p, l) == Cardinality({r \in 1..Len(p) : ArgMax(p[r]) = Long(l[r])})

compute_acc(p, l) == TrueDiv(Matches(p, l), Len(p))

Rows == [1..NClasses -> 0..MaxScore]

(***************************************************************************)
(* DistSAGE.__init__ and DistSAGE.forward                                  *)
(***************************************************************************)
FanOutValues == {10, 25}

\* The arguments run reads, at the values the other specifications fix.
ArgDefaults ==
    [num_layers |-> 2, fan_out |-> <<10, 25>>, num_epochs |-> 1,
     eval_every |-> 1, batch_size_eval |-> NumNodes]

\* nn.ModuleList built by __init__: the first layer, range(1, n_layers - 1)
\* hidden layers, the last layer.
MakeLayers(n_layers) ==
    <<[in |-> InFeats, out |-> NumHidden]>>
    \o [j \in 1..Max(0, n_layers - 2) |-> [in |-> NumHidden, out |-> NumHidden]]
    \o <<[in |-> NumHidden, out |-> NClasses]>>

\* What NeighborSampler(fan_out) yields for a minibatch: one block per fan_out
\* entry, outermost first; a block's destination nodes are the next block's
\* source nodes, and its source nodes include its destination nodes.
BlockLists(k) ==
    {b \in [1..k -> [src : 1..MaxBlockNodes, dst : 1..MaxBlockNodes]] :
        /\ \A j \in 1..k : b[j].dst <= b[j].src
        /\ \A j \in 1..(k - 1) : b[j + 1].src = b[j].dst}

\* layer(block, h): SAGEConv maps a (src, in) feature matrix to (dst, out).
ConvApplies(layer, block, x) == x.rows = block.src /\ x.cols = layer.in
Conv(layer, block, x) == [rows |-> block.dst, cols |-> layer.out, act |-> FALSE]

AlwaysActivate(i) == TRUE

\* The test "i != len(self.layers) - 1" of forward and of inference.
NotLastLayer(i) == i # Len(layers) - 1

\* zip(self.layers, blocks) stops at the shorter of the two.
ZipLen == Min(Len(layers), Len(blocks))

(***************************************************************************)
(* DistSAGE.inference: the graph, the layers' arithmetic, the batches      *)
(***************************************************************************)
\* The graph: a path 1 - 2 - ... - NumNodes; Neigh(v) are v's in-neighbours.
Neigh(v) == {u \in Nodes : u = v - 1 \/ u = v + 1}

\* g.ndata["features"], one value per node.
Feat(v) == 2 * v

Relu(x) == Max(x, 0)

\* nn.Dropout: the identity in evaluation mode; in training mode an element
\* is zeroed or scaled by 1 / (1 - p), p = 0.5.
Dropout(x, tr, kept) == IF ~tr THEN x ELSE IF kept THEN 2 * x ELSE 0
DropoutMasks(O, tr) == IF tr THEN [O -> BOOLEAN] ELSE {[v \in O |-> TRUE]}

\* SAGEConv(.., "mean") of layer i at destination node v, X the rows read:
\* fc_self(h_dst) + fc_neigh(mean of the neighbours' rows) (fixed weights).
MeanOver(S, X) == IF S = {} THEN 0 ELSE SumSet(S, X) \div Cardinality(S)
SageConv(i, v, X) == (i + 1) * X[v] + MeanOver(Neigh(v), X) - 3

\* One node's row as a batch of layer i computes it.
LayerOut(i, v, X, tr, kept) ==
    IF NotLastLayer(i) THEN Dropout(Relu(SageConv(i, v, X)), tr, kept)
    ELSE SageConv(i, v, X)

\* x[input_nodes]: the rows a batch reads from the tensor x is bound to.
View(name) ==
    IF name = "features" THEN [v \in Nodes |-> Feat(v)]
    ELSE [v \in Nodes |-> store[name][v].val]

\* A freshly allocated DistTensor: zero rows, written by no layer.
FreshRow == [val |-> 0, layer |-> -1, by |-> 0]
FreshStore == [n \in {"h", "h_last"} |-> [v \in Nodes |-> FreshRow]]

\* The nodes node_split hands to process p, in id order.
MyNodes(p) ==
    LET S == {v \in Nodes : split[v] = p}
    IN CHOOSE s \in [1..Cardinality(S) -> S] :
           \A a, b \in 1..Cardinality(S) : a < b => s[a] < s[b]

NumBatchesDropLast(n, bs) == n \div bs

\* DistNodeDataLoader(.., batch_size=bs, drop_last=False) over n nodes.
NumBatches(n, bs) == (n + bs - 1) \div bs

\* The output nodes of p's batch number b (0-based) of a layer.
BatchNodes(p, b) ==
    LET s == MyNodes(p)
        bs == args.batch_size_eval
    IN {s[k] : k \in (b * bs + 1)..Min((b + 1) * bs, Len(s))}

BarrierNoWait(p) == TRUE

\* g.barrier() lets p through once every process has entered the barrier.
BarrierOpen(p) == \A q \in Procs : arrived[q] >= arrived[p]

(***************************************************************************)
(* run: the epoch loop, join, the epoch-time aggregate                     *)
(***************************************************************************)
NoShadow(q, e) == FALSE

\* model.join(): a process that has run out of batches shadows the
\* collective operations of the processes still training.
Shadows(q, e) == epoch[q] = e /\ pc[q] = "joined"

\* q has entered the gradient all-reduce of training step k of epoch e.
Contributed(q, e, k) ==
    epoch[q] = e /\ (step[q] >= k \/ (pc[q] = "allreduce" /\ step[q] + 1 = k))

\* q has left the training loop of epoch e.
HasJoined(q, e) ==
    epoch[q] > e \/ (epoch[q] = e /\ pc[q] \notin {"train", "allreduce"})

EvalOnlyEvery(e) == e % args.eval_every = 0

\* epoch % args.eval_every == 0 or epoch == args.num_epochs
ShouldEvaluate(e) == e % args.eval_every = 0 \/ e = args.num_epochs

TrailingCountCeil(n) == (n * 8 + 9) \div 10

\* int(args.num_epochs * 0.8)
TrailingCount(n) == (n * 8) \div 10

\* s[-k:] for k >= 0: the whole list for k = 0, else the last k entries.
TailSlice(s, k) ==
    IF k = 0 THEN s ELSE SubSeq(s, Max(Len(s) - k, 0) + 1, Len(s))

\* np.mean
Mean(s) == TrueDiv(SumSeq(s), Len(s))

ModelTrainSkipped(p) == training

\* model.eval() / model.train()
ModelEval(p) == [training EXCEPT ![p] = FALSE]
ModelTrain(p) == [training EXCEPT ![p] = TRUE]

(***************************************************************************)
(* Initial states                                                          *)
(***************************************************************************)
NoReturn == [epoch_time |-> NaN, test_acc |-> 0]

AccIdle ==
    /\ pred = <<>>
    /\ labels = <<>>
    /\ acc = NaN
    /\ apc = "idle"

FwdIdle ==
    /\ blocks = <<>>
    /\ h = [rows |-> 0, cols |-> 0, act |-> FALSE]
    /\ fi = 0
    /\ nact = 0
    /\ fpc = "idle"

\* The even, contiguous assignment of nodes to processes.
EvenSplit == [v \in Nodes |-> ((v - 1) * Cardinality(Procs)) \div NumNodes + 1]

InfIdle ==
    /\ xref = [p \in Procs |-> "features"]
    /\ yref = [p \in Procs |-> "h"]
    /\ li = [p \in Procs |-> 0]
    /\ bi = [p \in Procs |-> 0]
    /\ arrived = [p \in Procs |-> 0]
    /\ store = FreshStore

RunIdle ==
    /\ nb = [p \in Procs |-> 0]
    /\ split = EvenSplit
    /\ pc = [p \in Procs |-> "idle"]
    /\ epoch = [p \in Procs |-> 0]
    /\ step = [p \in Procs |-> 0]
    /\ epoch_time = [p \in Procs |-> <<>>]
    /\ test_acc = [p \in Procs |-> 0]
    /\ ret = [p \in Procs |-> NoReturn]
    /\ log = [p \in Procs |-> <<>>]
    /\ training = [p \in Procs |-> TRUE]
    /\ grad = [p \in Procs |-> TRUE]
    /\ InfIdle

\* compute_acc called on a prediction matrix and a label vector.
AccInit ==
    /\ pred \in SeqsUpTo(Rows, MaxRows)
    /\ labels \in [1..Len(pred) -> LabelValues]
    /\ acc = NaN
    /\ apc = "call"
    /\ args = ArgDefaults
    /\ layers = <<>>
    /\ FwdIdle
    /\ RunIdle

\* run about to construct the model, for each --num_layers and --fan_out.
FwdInit ==
    /\ \E n \in 1..MaxLayers :
       \E f \in UNION {[1..k -> FanOutValues] : k \in 1..MaxFanOut} :
          args = [ArgDefaults EXCEPT !.num_layers = n, !.fan_out = f]
    /\ layers = <<>>
    /\ blocks = <<>>
    /\ h = [rows |-> 0, cols |-> 0, act |-> FALSE]
    /\ fi = 0
    /\ nact = 0
    /\ fpc = "new"
    /\ RunIdle
    /\ AccIdle

\* run after its set-up (lines 142-177): the model is built and in training
\* mode, no epoch has run.
Init ==
    /\ \E n \in 1..MaxEpochs : \E ev \in 1..MaxEvalEvery :
          args = [ArgDefaults EXCEPT !.num_epochs = n, !.eval_every = ev]
    /\ layers = MakeLayers(args.num_layers)
    /\ nb \in [Procs -> 0..MaxBatches]
    /\ split = EvenSplit
    /\ pc = [p \in Procs |-> "epoch"]
    /\ epoch = [p \in Procs |-> 0]
    /\ step = [p \in Procs |-> 0]
    /\ epoch_time = [p \in Procs |-> <<>>]
    /\ test_acc = [p \in Procs |-> 0]
    /\ ret = [p \in Procs |-> NoReturn]
    /\ log = [p \in Procs |-> <<>>]
    /\ training = [p \in Procs |-> TRUE]
    /\ grad = [p \in Procs |-> TRUE]
    /\ InfIdle
    /\ AccIdle
    /\ FwdIdle

\* Every process at the call of evaluate after the only epoch of a run, for
\* each --num_layers, --batch_size_eval and assignment of nodes to processes.
InfInit ==
    /\ \E n \in 1..MaxLayers : \E bs \in 1..NumNodes :
          args = [ArgDefaults EXCEPT !.num_layers = n, !.batch_size_eval = bs]
    /\ layers = MakeLayers(args.num_layers)
    /\ nb = [p \in Procs |-> 0]
    /\ split \in [Nodes -> Procs]
    /\ pc = [p \in Procs |-> "evaluate"]
    /\ epoch = [p \in Procs |-> 1]
    /\ step = [p \in Procs |-> 0]
    /\ epoch_time = [p \in Procs |-> <<1>>]
    /\ test_acc = [p \in Procs |-> 0]
    /\ ret = [p \in Procs |-> NoReturn]
    /\ log = [p \in Procs |-> <<[kind |-> "epoch", epoch |-> 1]>>]
    /\ training = [p \in Procs |-> TRUE]
    /\ grad = [p \in Procs |-> TRUE]
    /\ InfIdle
    /\ AccIdle
    /\ FwdIdle

(***************************************************************************)
(* Actions: compute_acc                                                    *)
(***************************************************************************)
ComputeAcc ==
    /\ apc = "call"
    /\ acc' = compute_acc(pred, labels)
    /\ apc' = "ret"
    /\ UNCHANGED <<pred, labels, fwdVars, cfgVars, runVars, infVars>>

AccNext == ComputeAcc

AccSpec == AccInit /\ [][AccNext]_vars

(***************************************************************************)
(* Actions: model construction and the training forward pass               *)
(***************************************************************************)
\* model = DistSAGE(in_feats, args.num_hidden, n_classes, args.num_layers, ..)
Construct ==
    /\ fpc = "new"
    /\ layers' = MakeLayers(args.num_layers)
    /\ fpc' = "sample"
    /\ UNCHANGED <<args, nb, split, blocks, h, fi, nact, accVars, runVars, infVars>>

\* One minibatch from the training dataloader and its input features
\* (load_subtensor: the features of blocks[0]'s source nodes); forward starts.
SampleBatch ==
    /\ fpc = "sample"
    /\ \E b \in BlockLists(Len(args.fan_out)) :
          /\ blocks' = b
          /\ h' = [rows |-> b[1].src, cols |-> InFeats, act |-> FALSE]
    /\ fi' = 0
    /\ nact' = 0
    /\ fpc' = "loop"
    /\ UNCHANGED <<cfgVars, accVars, runVars, infVars>>

\* One iteration of forward's loop.
ForwardLayer ==
    /\ fpc = "loop"
    /\ fi < ZipLen
    /\ IF ConvApplies(layers[fi + 1], blocks[fi + 1], h)
       THEN /\ h' = [Conv(layers[fi + 1], blocks[fi + 1], h)
                        EXCEPT !.act = NotLastLayer(fi)]
            /\ nact' = IF NotLastLayer(fi) THEN nact + 1 ELSE nact
            /\ fi' = fi + 1
            /\ fpc' = "loop"
       ELSE /\ fpc' = "error"
            /\ UNCHANGED <<h, nact, fi>>
    /\ UNCHANGED <<blocks, cfgVars, accVars, runVars, infVars>>

\* return h
ForwardReturn ==
    /\ fpc = "loop"
    /\ fi = ZipLen
    /\ fpc' = "ret"
    /\ UNCHANGED <<blocks, h, fi, nact, cfgVars, accVars, runVars, infVars>>

FwdNext == Construct \/ SampleBatch \/ ForwardLayer \/ ForwardReturn

FwdSpec == FwdInit /\ [][FwdNext]_vars

(***************************************************************************)
(* Actions: evaluate and DistSAGE.inference, per process                   *)
(***************************************************************************)
\* evaluate: model.eval(), with th.no_grad(), and inference up to its loop.
EvalBegin(p) ==
    /\ pc[p] = "evaluate"
    /\ training' = ModelEval(p)
    /\ grad' = [grad EXCEPT ![p] = FALSE]
    /\ xref' = [xref EXCEPT ![p] = "features"]
    /\ yref' = [yref EXCEPT ![p] = "h"]
    /\ li' = [li EXCEPT ![p] = 0]
    /\ pc' = [pc EXCEPT ![p] = "inf_layer"]
    /\ UNCHANGED <<bi, arrived, store, epoch, step, epoch_time, test_acc, ret,
                   log, cfgVars, accVars, fwdVars>>

\* The head of one iteration of "for i, layer in enumerate(self.layers)":
\* the last layer rebinds y to "h_last"; a new dataloader is made.
InfLayerBegin(p) ==
    /\ pc[p] = "inf_layer"
    /\ li[p] < Len(layers)
    /\ yref' = [yref EXCEPT ![p] = IF NotLastLayer(li[p]) THEN @ ELSE "h_last"]
    /\ bi' = [bi EXCEPT ![p] = 0]
    /\ pc' = [pc EXCEPT ![p] = "inf_batch"]
    /\ UNCHANGED <<xref, li, arrived, store, epoch, step, epoch_time, test_acc,
                   ret, log, training, grad, cfgVars, accVars, fwdVars>>

\* One batch: read x[input_nodes], apply the layer (and activation and
\* dropout unless it is the last), write y[output_nodes].
InfBatch(p) ==
    /\ pc[p] = "inf_batch"
    /\ bi[p] < NumBatches(Len(MyNodes(p)), args.batch_size_eval)
    /\ LET O == BatchNodes(p, bi[p])
           X == View(xref[p])
       IN \E kept \in DropoutMasks(O, training[p]) :
            store' = [store EXCEPT ![yref[p]] =
                        [v \in Nodes |->
                            IF v \in O
                            THEN [val |-> LayerOut(li[p], v, X, training[p], kept[v]),
                                  layer |-> li[p], by |-> p]
                            ELSE @[v]]]
    /\ bi' = [bi EXCEPT ![p] = @ + 1]
    /\ UNCHANGED <<xref, yref, li, arrived, cfgVars, runVars, accVars, fwdVars>>

\* The dataloader is exhausted: x = y, and the process enters g.barrier().
InfLayerEnd(p) ==
    /\ pc[p] = "inf_batch"
    /\ bi[p] = NumBatches(Len(MyNodes(p)), args.batch_size_eval)
    /\ xref' = [xref EXCEPT ![p] = yref[p]]
    /\ arrived' = [arrived EXCEPT ![p] = @ + 1]
    /\ pc' = [pc EXCEPT ![p] = "inf_barrier"]
    /\ UNCHANGED <<yref, li, bi, store, epoch, step, epoch_time, test_acc, ret,
                   log, training, grad, cfgVars, accVars, fwdVars>>

\* g.barrier() returns; the loop goes on to the next layer.
InfBarrierPass(p) ==
    /\ pc[p] = "inf_barrier"
    /\ BarrierOpen(p)
    /\ li' = [li EXCEPT ![p] = @ + 1]
    /\ pc' = [pc EXCEPT ![p] = "inf_layer"]
    /\ UNCHANGED <<xref, yref, bi, arrived, store, epoch, step, epoch_time,
                   test_acc, ret, log, training, grad, cfgVars, accVars, fwdVars>>

\* inference returns y; evaluate leaves no_grad, calls model.train() and
\* returns the accuracies; run keeps test_acc and prints the evaluation line.
EvalReturn(p) ==
    /\ pc[p] = "inf_layer"
    /\ li[p] = Len(layers)
    /\ grad' = [grad EXCEPT ![p] = TRUE]
    /\ training' = ModelTrain(p)
    /\ test_acc' = [test_acc EXCEPT ![p] = epoch[p]]
    /\ log' = [log EXCEPT ![p] = Append(@, [kind |-> "eval", epoch |-> epoch[p]])]
    /\ pc' = [pc EXCEPT ![p] = "epoch"]
    /\ UNCHANGED <<epoch, step, epoch_time, ret, cfgVars, infVars, accVars, fwdVars>>

Inference(p) ==
    \/ EvalBegin(p)
    \/ InfLayerBegin(p)
    \/ InfBatch(p)
    \/ InfLayerEnd(p)
    \/ InfBarrierPass(p)
    \/ EvalReturn(p)

InfNext == \E p \in Procs : Inference(p)

InfSpec == InfInit /\ [][InfNext]_vars

(***************************************************************************)
(* Actions: run's epoch loop, per process                                  *)
(***************************************************************************)
\* for _ in range(args.num_epochs): epoch += 1; tic = time.time(); ...
EpochStart(p) ==
    /\ pc[p] = "epoch"
    /\ epoch[p] < args.num_epochs
    /\ epoch' = [epoch EXCEPT ![p] = @ + 1]
    /\ step' = [step EXCEPT ![p] = 0]
    /\ pc' = [pc EXCEPT ![p] = "train"]
    /\ UNCHANGED <<epoch_time, test_acc, ret, log, training, grad, cfgVars,
                   infVars, accVars, fwdVars>>

\* A minibatch: load_subtensor, the forward pass, the loss, zero_grad, and
\* loss.backward() up to its gradient all-reduce.
TrainForward(p) ==
    /\ pc[p] = "train"
    /\ step[p] < nb[p]
    /\ pc' = [pc EXCEPT ![p] = "allreduce"]
    /\ UNCHANGED <<epoch, step, epoch_time, test_acc, ret, log, training, grad,
                   cfgVars, infVars, accVars, fwdVars>>

\* The all-reduce completes once every other process has entered it or
\* shadows it; then optimizer.step() and the step's bookkeeping.
TrainBackward(p) ==
    /\ pc[p] = "allreduce"
    /\ \A q \in Procs \ {p} :
          Contributed(q, epoch[p], step[p] + 1) \/ Shadows(q, epoch[p])
    /\ step' = [step EXCEPT ![p] = @ + 1]
    /\ pc' = [pc EXCEPT ![p] = "train"]
    /\ UNCHANGED <<epoch, epoch_time, test_acc, ret, log, training, grad,
                   cfgVars, infVars, accVars, fwdVars>>

\* The dataloader is exhausted: the process joins (end of the for loop,
\* the join context's exit begins).
JoinEnter(p) ==
    /\ pc[p] = "train"
    /\ step[p] = nb[p]
    /\ pc' = [pc EXCEPT ![p] = "joined"]
    /\ UNCHANGED <<epoch, step, epoch_time, test_acc, ret, log, training, grad,
                   cfgVars, infVars, accVars, fwdVars>>

\* The join context exits once every process has joined.
JoinExit(p) ==
    /\ pc[p] = "joined"
    /\ \A q \in Procs : HasJoined(q, epoch[p])
    /\ pc' = [pc EXCEPT ![p] = "epoch_end"]
    /\ UNCHANGED <<epoch, step, epoch_time, test_acc, ret, log, training, grad,
                   cfgVars, infVars, accVars, fwdVars>>

\* toc = time.time(); the epoch line is printed; epoch_time.append(toc - tic);
\* the test whether to evaluate.
EpochEnd(p) ==
    /\ pc[p] = "epoch_end"
    /\ \E d \in Durations : epoch_time' = [epoch_time EXCEPT ![p] = Append(@, d)]
    /\ log' = [log EXCEPT ![p] = Append(@, [kind |-> "epoch", epoch |-> epoch[p]])]
    /\ pc' = [pc EXCEPT ![p] = IF ShouldEvaluate(epoch[p]) THEN "evaluate" ELSE "epoch"]
    /\ UNCHANGED <<epoch, step, test_acc, ret, training, grad, cfgVars, infVars,
                   accVars, fwdVars>>

\* return np.mean(epoch_time[-int(args.num_epochs * 0.8):]), test_acc
Return(p) ==
    /\ pc[p] = "epoch"
    /\ epoch[p] = args.num_epochs
    /\ ret' = [ret EXCEPT ![p] =
                 [epoch_time |-> Mean(TailSlice(epoch_time[p],
                                                TrailingCount(args.num_epochs))),
                  test_acc |-> test_acc[p]]]
    /\ pc' = [pc EXCEPT ![p] = "done"]
    /\ UNCHANGED <<epoch, step, epoch_time, test_acc, log, training, grad,
                   cfgVars, infVars, accVars, fwdVars>>

Train(p) ==
    \/ EpochStart(p)
    \/ TrainForward(p)
    \/ TrainBackward(p)
    \/ JoinEnter(p)
    \/ JoinExit(p)
    \/ EpochEnd(p)
    \/ Return(p)

Proc(p) == Train(p) \/ Inference(p)

Next == \E p \in Procs : Proc(p)

Spec == Init /\ [][Next]_vars

\* Every process keeps running: each is an operating-system process of its own.
FairSpec == Spec /\ \A p \in Procs : WF_vars(Proc(p))

(***************************************************************************)
(* Properties                                                              *)
(***************************************************************************)
AllDone == \A p \in Procs : pc[p] = "done"
InInference(p) == pc[p] \in {"inf_layer", "inf_batch", "inf_barrier"}

\* The reference computation: layer i's output for every node, computed from
\* layer i-1's outputs of the node and of all its neighbours (evaluation mode).
RECURSIVE RefTensor(_)
RefTensor(i) ==
    IF i < 0 THEN [v \in Nodes |-> Feat(v)]
    ELSE LET X == RefTensor(i - 1)
         IN [v \in Nodes |-> LayerOut(i, v, X, FALSE, TRUE)]

\* C1: when inference has returned to a process, the row of every graph node
\* in the returned tensor equals the reference layer-by-layer computation,
\* for every number of layers, batch size, assignment and interleaving.
C1_InferenceMatchesReference ==
    \A p \in Procs :
        pc[p] = "epoch" =>
            \A v \in Nodes :
                store[yref[p]][v].val = RefTensor(Len(layers) - 1)[v]

\* Two rationals [num, den] are the same number.
MeanEq(a, b) == a.den # 0 /\ b.den # 0 /\ a.num * b.den = b.num * a.den

\* The last k entries of a process's epoch durations.
LastEpochs(p, k) == SubSeq(epoch_time[p], Len(epoch_time[p]) - k + 1, Len(epoch_time[p]))
MeanOfLast(p, k) == [num |-> SumSeq(LastEpochs(p, k)), den |-> k]

CeilOf80(n) == CHOOSE k \in 0..n : 10 * (k - 1) < 8 * n /\ 8 * n <= 10 * k
FloorOf80(n) == CHOOSE k \in 0..n : 10 * k <= 8 * n /\ 8 * n < 10 * (k + 1)

\* C2 (as stated): the epoch-time value run returns is the mean of the
\* durations of exactly the last ceil(0.8 * num_epochs) epochs.
C2_MeanOverCeil ==
    \A p \in Procs :
        pc[p] = "done" =>
            MeanEq(ret[p].epoch_time, MeanOfLast(p, CeilOf80(args.num_epochs)))

\* C2 (amended): the epoch-time value run returns is the mean of the durations
\* of exactly the last floor(0.8 * num_epochs) epochs, and of all epochs when
\* that floor is 0 (num_epochs = 1).
C2_MeanOverFloor ==
    \A p \in Procs :
        pc[p] = "done" =>
            LET k == FloorOf80(args.num_epochs)
            IN MeanEq(ret[p].epoch_time,
                      MeanOfLast(p, IF k = 0 THEN args.num_epochs ELSE k))

C2_Witness ==
    \E p \in Procs :
        /\ pc[p] = "done"
        /\ args.num_epochs = 2
        /\ epoch_time[p] = <<1, 2>>
        /\ ret[p].epoch_time = [num |-> 2, den |-> 1]

\* C3: the constructed model holds exactly n_layers convolution layers, and a
\* forward pass given one block per layer applies activation+dropout exactly
\* n_layers - 1 times.
C3_LayerCount ==
    /\ fpc \in {"sample", "loop", "ret"} => Len(layers) = args.num_layers
    /\ (fpc = "ret" /\ Len(blocks) = Len(layers)) => nact = args.num_layers - 1

Seeds == blocks[Len(blocks)].dst

\* C4 (as stated): for every --num_layers and --fan_out, forward's output has
\* one row per seed node and n_classes columns, with no activation after the
\* final layer.
C4_OutputShapeAlways ==
    fpc = "ret" => h.rows = Seeds /\ h.cols = NClasses /\ ~h.act

\* C4 (amended): forward's output has one row per seed node when fan_out has
\* no more entries than the model holds layers, and has n_classes columns with
\* no activation after it when fan_out has no fewer entries than the model
\* holds layers; so it has both when the two counts are equal.
C4_OutputShapeMatched ==
    fpc = "ret" =>
        /\ Len(args.fan_out) <= Len(layers) => h.rows = Seeds
        /\ Len(args.fan_out) >= Len(layers) => h.cols = NClasses /\ ~h.act

C4_Witness ==
    /\ fpc = "ret"
    /\ args.num_layers = 3
    /\ Len(args.fan_out) = 3
    /\ blocks[1].src > Seeds
    /\ h = [rows |-> Seeds, cols |-> NClasses, act |-> FALSE]

\* The epochs whose evaluation line a process has printed, in order.
EvalEpochs(p) ==
    LET L == log[p]
        idx == {k \in 1..Len(L) : L[k].kind = "eval"}
    IN [e \in 1..args.num_epochs |->
           Cardinality({k \in idx : L[k].epoch = e})]

Due(e) == e % args.eval_every = 0 \/ e = args.num_epochs

\* C5: evaluation runs exactly once after each epoch e with
\* e mod eval_every = 0 or e = num_epochs and after no other epoch; every
\* evaluation follows its epoch's last training step (and epoch line), and the
\* last evaluation is the one after the final epoch.
C5_EvaluationSchedule ==
    \A p \in Procs :
        LET L == log[p]
        IN /\ \A k \in 1..Len(L) :
                 L[k].kind = "eval" =>
                     /\ k > 1
                     /\ L[k - 1] = [kind |-> "epoch", epoch |-> L[k].epoch]
                     /\ Due(L[k].epoch)
           /\ \A e \in 1..args.num_epochs : EvalEpochs(p)[e] <= 1
           /\ (pc[p] = "evaluate" \/ InInference(p)) =>
                 /\ step[p] = nb[p]
                 /\ Due(epoch[p])
                 /\ L[Len(L)] = [kind |-> "epoch", epoch |-> epoch[p]]
           /\ pc[p] = "done" =>
                 /\ \A e \in 1..args.num_epochs :
                       EvalEpochs(p)[e] = IF Due(e) THEN 1 ELSE 0
                 /\ L[Len(L)] = [kind |-> "eval", epoch |-> args.num_epochs]

C5_Witness ==
    \E p \in Procs :
        /\ pc[p] = "done"
        /\ args.num_epochs = 2
        /\ args.eval_every = 2
        /\ nb[p] = 1
        /\ EvalEpochs(p) = <<0, 1>>

\* The claim's own reading of the integer cast and of the arg max.
CastLabel(l) == CHOOSE n \in -2..2 :
                   IF l >= 0 THEN 10 * n <= l /\ l < 10 * (n + 1)
                   ELSE 10 * (n - 1) < l /\ l <= 10 * n
RowHit(r) ==
    LET c == CastLabel(labels[r]) + 1
    IN /\ c \in 1..NClasses
       /\ \A k \in 1..NClasses : pred[r][k] <= pred[r][c]
       /\ \A k \in 1..(c - 1) : pred[r][k] < pred[r][c]
Hits == Cardinality({r \in 1..Len(pred) : RowHit(r)})

\* C6 (as stated): for every prediction matrix and label vector of the same
\* length the result is (rows whose arg max equals the integer-cast label) /
\* (rows), a value in [0,1], 1 when every row matches, 0 when none does.
C6_AccuracyIsFraction ==
    apc = "ret" =>
        /\ acc # NaN
        /\ acc.den = Len(pred) /\ acc.num = Hits
        /\ 0 <= acc.num /\ acc.num <= acc.den /\ acc.den > 0

\* C6 (amended): the same for every non-empty prediction matrix; for an empty
\* one the result is nan (0.0 / 0).
C6_AccuracyNonEmpty ==
    apc = "ret" =>
        IF Len(pred) = 0 THEN acc = NaN
        ELSE /\ acc # NaN
             /\ acc.den = Len(pred) /\ acc.num = Hits
             /\ 0 <= acc.num /\ acc.num <= acc.den /\ acc.den > 0
             /\ (\A r \in 1..Len(pred) : RowHit(r)) => acc.num = acc.den
             /\ (\A r \in 1..Len(pred) : ~RowHit(r)) => acc.num = 0

C6_Witness ==
    /\ apc = "ret"
    /\ Len(pred) = 2
    /\ labels = <<-5, 15>>
    /\ RowHit(1) /\ ~RowHit(2)
    /\ acc = [num |-> 1, den |-> 2]

\* q has written all of its rows of layer i.
LayerWritten(q, i) ==
    \/ li[q] > i
    \/ li[q] = i /\ pc[q] = "inf_barrier"

\* C7: no process reads rows for layer i+1 before every process has finished
\* writing its layer-i rows; each process passes exactly one barrier per
\* layer, after its last batch of the layer and after rebinding x to y.
C7_BarrierOrdersLayers ==
    \A p \in Procs :
        /\ (pc[p] = "inf_batch" /\ li[p] >= 1) =>
              /\ \A q \in Procs : LayerWritten(q, li[p] - 1)
              /\ \A v \in Nodes : store[xref[p]][v].layer >= li[p] - 1
        /\ InInference(p) =>
              arrived[p] = li[p] + (IF pc[p] = "inf_barrier" THEN 1 ELSE 0)
        /\ pc[p] = "inf_barrier" =>
              /\ xref[p] = yref[p]
              /\ bi[p] = (Len(MyNodes(p)) + args.batch_size_eval - 1)
                             \div args.batch_size_eval
        /\ pc[p] = "epoch" => arrived[p] = Len(layers)

C7_Witness ==
    \E p, q \in Procs :
        /\ p # q
        /\ pc[p] = "inf_batch" /\ li[p] = 1 /\ bi[p] = 1
        /\ pc[q] = "inf_barrier" /\ li[q] = 0
        /\ Len(MyNodes(q)) > args.batch_size_eval

\* C8: given that the split assigns every node to some process, in every
\* layer every node's row of y is written by a batch of the node's process,
\* partial final batches included; on return every row of the result is a
\* final-layer row and none is left from allocation or an earlier layer.
C8_EveryRowWritten ==
    \A p \in Procs :
        /\ (pc[p] = "inf_layer" /\ li[p] >= 1) =>
              \A v \in Nodes :
                  /\ store[xref[p]][v].layer >= li[p] - 1
                  /\ store[xref[p]][v].by = split[v]
        /\ pc[p] = "epoch" =>
              /\ yref[p] = "h_last"
              /\ \A v \in Nodes :
                    /\ store["h_last"][v].layer = Len(layers) - 1
                    /\ store["h_last"][v].by = split[v]

C8_Witness ==
    \E p \in Procs :
        /\ pc[p] = "epoch"
        /\ args.batch_size_eval = 2
        /\ Len(MyNodes(p)) = 3
        /\ args.num_layers = 3
        /\ \A v \in Nodes : store["h_last"][v].layer = 2

\* C9: with any per-process numbers of training minibatches, every process
\* completes every epoch and evaluation and run returns, all processes having
\* printed the same evaluations and passed the same number of barriers.
C9_RaggedRunTerminates ==
    <>(/\ AllDone
       /\ \A p, q \in Procs :
             /\ arrived[p] = arrived[q]
             /\ EvalEpochs(p) = EvalEpochs(q))

C9_Witness ==
    /\ AllDone
    /\ nb[1] = 0 /\ nb[2] = MaxBatches
    /\ args.num_epochs = MaxEpochs
    /\ arrived[1] = arrived[2] /\ arrived[1] >= Len(layers)

\* C10: the model is in evaluation mode with gradient tracking disabled
\* during the whole of every full-graph inference and in training mode (with
\* gradient tracking) everywhere else, so in every training step.
C10_ModeDiscipline ==
    \A p \in Procs :
        /\ InInference(p) => ~training[p] /\ ~grad[p]
        /\ ~InInference(p) => training[p] /\ grad[p]

C10_Witness ==
    \E p \in Procs :
        /\ pc[p] = "allreduce"
        /\ epoch[p] = 2
        /\ test_acc[p] = 1
        /\ training[p]

====
